---- MODULE Spec2Model ----
(***************************************************************************)
(* State-machine model of tracker.py (jnsnow/mtracker): one run of main(), *)
(* with the calls it makes (lookup, search_artist, get_releases,           *)
(* get_releases_artist, print_releases) as positions of a single thread.   *)
(* The remote catalog and the cache file are the environment: every HTTP   *)
(* response is a nondeterministic choice, the file is a variable.          *)
(***************************************************************************)
EXTENDS Integers, Sequences, FiniteSets

(* ---------------- bounds of the model ---------------- *)
MaxArtists == 2      \* longest --artists list
MaxIds == 1          \* longest --ids list
MaxCached == 1       \* most members of the cache file at start
MaxCandidates == 2   \* most artists in one search response
MaxReleases == 2     \* most release groups in one artist response

(* ---------------- values ---------------- *)
\* Python's None, kept apart from every str value of the model
None == "<None>"
\* bool(v) of a value that is None or a str (tracker.py:73, 111, 122)
Truthy(v) == v # None /\ v # ""

Names == {"A", "B"}
CachedIds == {"id-123"}
ExplicitIds == {"id-x"}
JsonPath == "cache.json"

\* status of a successful response (tracker.py:17, 38) and a failing one
OK == 200
StatusCodes == {OK, 503}

\* width of the date column (tracker.py:64)
DateWidth == 10
Space == 32

RangeOf(s) == {s[x] : x \in 1..Len(s)}
SeqsUpTo(S, m) == UNION {[1..l -> S] : l \in 0..m}
\* sequences without a repeated element
Distinct(s) == \A x, y \in 1..Len(s) : s[x] = s[y] => x = y

(* ---------------- dict (insertion ordered) ---------------- *)
Item(k, v) == [k |-> k, v |-> v]
HasKey(d, k) == \E x \in 1..Len(d) : d[x].k = k
dict_get(d, k) == d[CHOOSE x \in 1..Len(d) : d[x].k = k].v
\* d[k] = v : an existing key keeps its position, a new key goes last
dict_set(d, k, v) ==
    IF HasKey(d, k)
    THEN [x \in 1..Len(d) |-> IF d[x].k = k THEN Item(k, v) ELSE d[x]]
    ELSE Append(d, Item(k, v))
RECURSIVE dict_update(_, _)
dict_update(d, items) ==
    IF items = <<>> THEN d
    ELSE dict_update(dict_set(d, Head(items).k, Head(items).v), Tail(items))
dict_values(d) == [x \in 1..Len(d) |-> d[x].v]

(* ---------------- JSON of the cache file ---------------- *)
JNull == [tok |-> "null"]
JStr(s) == [tok |-> "string", val |-> s]
JsonVals == {JNull, JStr("")} \cup {JStr(s) : s \in CachedIds}
NoFile == [exists |-> FALSE, members |-> <<>>]
\* cache files at start: JSON objects of name : id-or-null, no name twice
CacheFiles ==
    { [exists |-> TRUE, members |-> m] :
        m \in {s \in SeqsUpTo([k : Names, v : JsonVals], MaxCached) :
                 \A x, y \in 1..Len(s) : s[x].k = s[y].k => x = y} }
\* json.load: an object becomes a dict (a repeated key keeps the last value),
\* null becomes None
json_load(members) ==
    dict_update(<<>>, [x \in 1..Len(members) |->
        Item(members[x].k,
             IF members[x].v.tok = "null" THEN None ELSE members[x].v.val)])
\* json.dump: None becomes null, a str a JSON string
json_dump(d) ==
    [x \in 1..Len(d) |->
        Item(d[x].k, IF d[x].v = None THEN JNull ELSE JStr(d[x].v))]

(* ---------------- the remote catalog ---------------- *)
Candidate(nm, sc, id, dis) ==
    [name |-> nm, score |-> sc, id |-> id, disambiguation |-> dis]
Candidates ==
    { Candidate("A", 100, "a1", ""),
      Candidate("A", 80, "a2", "band"),
      Candidate("C", 100, "c1", "duo"),
      Candidate("C", 60, "c2", "") }
\* one search result: each artist at most once
SearchResponses == {cs \in SeqsUpTo(Candidates, MaxCandidates) : Distinct(cs)}

\* first-release-date strings as code points: "2020-01-01", "2020"
Date2020_01_01 == <<50, 48, 50, 48, 45, 48, 49, 45, 48, 49>>
Date2020 == <<50, 48, 50, 48>>
ReleaseGroup(t, d) == [title |-> t, first_release_date |-> d]
ReleaseGroups ==
    { ReleaseGroup("t1", Date2020_01_01),
      ReleaseGroup("t2", Date2020_01_01),
      ReleaseGroup("t3", Date2020) }
\* one artist's release groups: each release group at most once
ReleaseLists == {rs \in SeqsUpTo(ReleaseGroups, MaxReleases) : Distinct(rs)}
DetailNames == {"N"}
ArtistResponses(id) ==
    { [id |-> id, name |-> nm, release_groups |-> rs] :
        nm \in DetailNames, rs \in ReleaseLists }

NoPage == [status_code |-> 0, content |-> <<>>]

VARIABLES
    args,          \* parsed command line: ids, artists, json
    file,          \* the cache file at args.json
    opened,        \* modes of the open() calls that succeeded, in order
    out,           \* lines printed to standard output
    logged,        \* distinct messages given to logging
    pc,            \* position of the run
    exc,           \* exception that ended the run, "" if none
    kvs, rewrite, fail,                     \* main
    changed, failure, it, matches,          \* lookup
    artist_name, page,                      \* search_artist / get_releases_artist
    artist_ids, art_id, nx, all_releases,   \* get_releases
    releases

vars == <<args, file, opened, out, logged, pc, exc, kvs, rewrite, fail,
          changed, failure, it, matches, artist_name, page,
          artist_ids, art_id, nx, all_releases, releases>>

Init ==
    /\ args \in [ ids : SeqsUpTo(ExplicitIds, MaxIds),
                  artists : SeqsUpTo(Names, MaxArtists),
                  json : {None, JsonPath} ]
    /\ file \in {NoFile} \cup
                IF args.json = None THEN {}
                ELSE CacheFiles
    /\ opened = <<>>
    /\ out = <<>>
    /\ logged = {}
    /\ pc = "main"
    /\ exc = ""
    /\ kvs = <<>> /\ rewrite = FALSE /\ fail = FALSE
    /\ changed = FALSE /\ failure = FALSE /\ it = 0 /\ matches = <<>>
    /\ artist_name = None /\ page = NoPage
    /\ artist_ids = <<>> /\ art_id = None /\ nx = 0 /\ all_releases = <<>>
    /\ releases = <<>>


(* ---------------- main: lines 104-117 ---------------- *)
\* {k: None for k in args.artists}, then the cache file merged over it
MainLoad ==
    /\ pc = "main"
    /\ LET seeded == IF args.artists # <<>>
                     THEN dict_update(<<>>, [x \in 1..Len(args.artists) |->
                                               Item(args.artists[x], None)])
                     ELSE <<>>
           readable == Truthy(args.json) /\ file.exists
           loaded == IF readable
                     THEN dict_update(seeded, json_load(file.members))
                     ELSE seeded
       IN /\ kvs' = loaded
          /\ opened' = IF readable THEN Append(opened, "r") ELSE opened
          /\ IF loaded # <<>>
             THEN /\ pc' = "lookup"
                  /\ changed' = FALSE /\ failure' = FALSE /\ it' = 1
             ELSE /\ pc' = "persist"
                  /\ UNCHANGED <<changed, failure, it>>
    /\ rewrite' = FALSE /\ fail' = FALSE
    /\ UNCHANGED <<args, file, out, logged, exc, matches, artist_name, page,
                   artist_ids, art_id, nx, all_releases, releases>>

(* ---------------- lookup: lines 72-76, 88 ---------------- *)
\* faulty variant: only None counts as unresolved
resolved_not_none(v) == v # None
\* faulty variant: the test of line 73 never skips
resolved_never(v) == FALSE
\* line 73: "if v: continue"
resolved(v) == Truthy(v)
\* faulty variant: the two flags returned in the wrong order
lookup_result_swapped == <<failure, changed>>
\* line 88: "return changed, failure"
lookup_result == <<changed, failure>>
LookupIter ==
    /\ pc = "lookup"
    /\ IF it > Len(kvs)
       THEN \* return changed, failure  (main:120)
            /\ rewrite' = lookup_result[1] /\ fail' = lookup_result[2]
            /\ pc' = "persist"
            /\ matches' = <<>>
            /\ UNCHANGED <<it, out, artist_name, page>>
       ELSE IF resolved(kvs[it].v)
       THEN \* continue
            /\ it' = it + 1
            /\ UNCHANGED <<pc, rewrite, fail, matches, out, artist_name, page>>
       ELSE \* print, call search_artist(k)
            /\ out' = Append(out, [line |-> "lookup", k |-> kvs[it].k])
            /\ artist_name' = kvs[it].k
            /\ page' = NoPage
            /\ pc' = "search_artist"
            /\ UNCHANGED <<it, rewrite, fail, matches>>
    /\ UNCHANGED <<args, file, opened, logged, exc, kvs, changed, failure,
                   artist_ids, art_id, nx, all_releases, releases>>

(* ---------------- search_artist: lines 14-20 ---------------- *)
\* faulty variant: any status from 200 up ends the loop
http_ok_any(st) == st >= OK
\* lines 17, 38: "if page.status_code == 200: break"
http_ok(st) == st = OK
SearchRequest ==
    /\ pc = "search_artist"
    /\ \E st \in StatusCodes, body \in SearchResponses :
         /\ st # OK => body = <<>>
         /\ page' = [status_code |-> st, content |-> body]
         /\ IF http_ok(st)
            THEN /\ pc' = "search_parse"
                 /\ logged' = logged \cup {[msg |-> "artist", arg |-> artist_name]}
            ELSE /\ pc' = pc
                 /\ logged' = logged \cup {[msg |-> "artist", arg |-> artist_name],
                                           [msg |-> "status", arg |-> st]}
    /\ UNCHANGED <<args, file, opened, out, exc, kvs, rewrite, fail, changed,
                   failure, it, matches, artist_name,
                   artist_ids, art_id, nx, all_releases, releases>>

(* ---------------- search_artist: lines 21-30 ---------------- *)
dispname(artist) ==
    IF Truthy(artist.disambiguation)
    THEN <<artist.name, " (", artist.disambiguation, ")">>
    ELSE <<artist.name>>
\* faulty variant: "and" for "or"
keep_artist_and(artist, query) == artist.name = query /\ artist.score = 100
\* line 24
keep_artist(artist, query) == artist.name = query \/ artist.score = 100
RECURSIVE filter_artists(_, _, _)
filter_artists(artists, query, acc) ==
    IF artists = <<>> THEN acc
    ELSE LET artist == Head(artists)
         IN filter_artists(Tail(artists), query,
              IF keep_artist(artist, query)
              THEN Append(acc, [name |-> artist.name, score |-> artist.score,
                                id |-> artist.id,
                                disambiguation |-> artist.disambiguation,
                                dispname |-> dispname(artist)])
              ELSE acc)

SearchReturn ==
    /\ pc = "search_parse"
    /\ matches' = filter_artists(page.content, artist_name, <<>>)
    /\ page' = NoPage
    /\ artist_name' = None
    /\ pc' = "lookup_match"
    /\ UNCHANGED <<args, file, opened, out, logged, exc, kvs, rewrite, fail,
                   changed, failure, it,
                   artist_ids, art_id, nx, all_releases, releases>>

(* ---------------- lookup: lines 77-87 ---------------- *)
candidate_line(match) ==
    [line |-> "candidate", dispname |-> match.dispname,
     score |-> match.score, id |-> match.id]
\* faulty variant: the first of several candidates is taken
single_match_first(ms) == Len(ms) >= 1
\* line 77: "if len(matches) == 1"
single_match(ms) == Len(ms) = 1
LookupMatch ==
    /\ pc = "lookup_match"
    /\ IF single_match(matches)
       THEN /\ kvs' = [kvs EXCEPT ![it].v = matches[1].id]
            /\ changed' = TRUE
            /\ out' = out \o <<[line |-> "match"], candidate_line(matches[1])>>
            /\ UNCHANGED failure
       ELSE /\ failure' = TRUE
            /\ out' = out \o <<[line |-> "multiple"]>>
                          \o [x \in 1..Len(matches) |-> candidate_line(matches[x])]
            /\ UNCHANGED <<kvs, changed>>
    /\ it' = it + 1
    /\ pc' = "lookup"
    /\ UNCHANGED <<args, file, opened, logged, exc, rewrite, fail, matches,
                   artist_name, page,
                   artist_ids, art_id, nx, all_releases, releases>>

(* ---------------- main: lines 122-124 ---------------- *)
\* faulty variant: the file is written whenever there is a working set and a path
should_persist_always == kvs # <<>> /\ Truthy(args.json)
\* faulty variant: a failed run skips the write
should_persist_unless_failed ==
    kvs # <<>> /\ rewrite /\ ~fail /\ Truthy(args.json)
\* line 122: "if kvs and rewrite and args.json"
should_persist == kvs # <<>> /\ rewrite /\ Truthy(args.json)
MainPersist ==
    /\ pc = "persist"
    /\ IF should_persist
       THEN /\ file' = [exists |-> TRUE, members |-> json_dump(kvs)]
            /\ opened' = Append(opened, "w")
       ELSE UNCHANGED <<file, opened>>
    /\ pc' = "check"
    /\ UNCHANGED <<args, out, logged, exc, kvs, rewrite, fail, changed, failure,
                   it, matches, artist_name, page,
                   artist_ids, art_id, nx, all_releases, releases>>

(* ---------------- main: lines 126-134 ---------------- *)
MainCheck ==
    /\ pc = "check"
    /\ IF fail
       THEN /\ out' = Append(out, [line |-> "abort"])
            /\ pc' = "exit"
            /\ UNCHANGED <<exc, artist_ids, nx, all_releases>>
       ELSE /\ artist_ids' = dict_values(kvs)
            /\ IF args.ids # <<>>
               THEN \* args.artist_ids: the namespace has no such attribute
                    /\ exc' = "AttributeError"
                    /\ pc' = "exit"
                    /\ UNCHANGED <<nx, all_releases>>
               ELSE /\ pc' = "get_releases"
                    /\ nx' = 1 /\ all_releases' = <<>>
                    /\ UNCHANGED exc
            /\ UNCHANGED out
    /\ UNCHANGED <<args, file, opened, logged, kvs, rewrite, fail, changed,
                   failure, it, matches, artist_name, page, art_id, releases>>

(* ---------------- sorted(..., reverse=True): lines 55-57 ---------------- *)
\* str < str : code point by code point, a proper prefix is smaller
StrLess(a, b) ==
    \/ /\ Len(a) < Len(b)
       /\ \A x \in 1..Len(a) : a[x] = b[x]
    \/ \E x \in 1..Len(a) :
         /\ x <= Len(b)
         /\ a[x] < b[x]
         /\ \A y \in 1..(x - 1) : a[y] = b[y]
Reverse(s) == [x \in 1..Len(s) |-> s[Len(s) + 1 - x]]
sort_key(r) == r.first_release_date
\* stable ascending insertion: e goes after every element not greater than it
RECURSIVE insert_stable(_, _)
insert_stable(s, e) ==
    IF s = <<>> THEN <<e>>
    ELSE IF StrLess(sort_key(e), sort_key(Head(s)))
         THEN <<e>> \o s
         ELSE <<Head(s)>> \o insert_stable(Tail(s), e)
RECURSIVE sort_stable(_, _)
sort_stable(s, acc) ==
    IF s = <<>> THEN acc
    ELSE sort_stable(Tail(s), insert_stable(acc, Head(s)))
\* faulty variant: ascending sort reversed, which turns equal dates around
sorted_then_reversed(s) == Reverse(sort_stable(s, <<>>))
\* list.sort(reverse=True) reverses, sorts stably ascending, reverses again
sorted_reverse(s) == Reverse(sort_stable(Reverse(s), <<>>))

(* ---------------- get_releases: lines 51-58 ---------------- *)
GetReleasesIter ==
    /\ pc = "get_releases"
    /\ IF nx > Len(artist_ids)
       THEN \* sort and return; main:134
            /\ releases' = sorted_reverse(all_releases)
            /\ pc' = "print_releases"
            /\ UNCHANGED <<art_id, page>>
       ELSE /\ art_id' = artist_ids[nx]
            /\ page' = NoPage
            /\ pc' = "get_releases_artist"
            /\ UNCHANGED releases
    /\ UNCHANGED <<args, file, opened, out, logged, exc, kvs, rewrite, fail,
                   changed, failure, it, matches, artist_name,
                   artist_ids, nx, all_releases>>

(* ---------------- get_releases_artist: lines 35-41 ---------------- *)
ArtistRequest ==
    /\ pc = "get_releases_artist"
    /\ \E st \in StatusCodes :
         IF http_ok(st)
         THEN /\ \E body \in ArtistResponses(art_id) :
                   page' = [status_code |-> st, content |-> body]
              /\ pc' = "artist_parse"
              /\ logged' = logged \cup {[msg |-> "artist_id", arg |-> art_id]}
         ELSE /\ page' = [status_code |-> st, content |-> <<>>]
              /\ pc' = pc
              /\ logged' = logged \cup {[msg |-> "artist_id", arg |-> art_id],
                                        [msg |-> "status", arg |-> st]}
    /\ UNCHANGED <<args, file, opened, out, exc, kvs, rewrite, fail, changed,
                   failure, it, matches, artist_name,
                   artist_ids, art_id, nx, all_releases, releases>>

(* ---------------- get_releases_artist: lines 42-47; get_releases: 54 ---- *)
attach_artist(j) ==
    [x \in 1..Len(j.release_groups) |->
        [title |-> j.release_groups[x].title,
         first_release_date |-> j.release_groups[x].first_release_date,
         artist |-> [id |-> j.id, name |-> j.name]]]
ArtistReturn ==
    /\ pc = "artist_parse"
    /\ all_releases' = all_releases \o attach_artist(page.content)
    /\ page' = NoPage
    /\ art_id' = None
    /\ nx' = nx + 1
    /\ pc' = "get_releases"
    /\ UNCHANGED <<args, file, opened, out, logged, exc, kvs, rewrite, fail,
                   changed, failure, it, matches, artist_name,
                   artist_ids, releases>>

(* ---------------- print_releases: lines 60-66 ---------------- *)
ljust(s, width) ==
    IF Len(s) >= width THEN s
    ELSE s \o [x \in 1..(width - Len(s)) |-> Space]
release_line(release) ==
    [line |-> "release",
     date |-> ljust(release.first_release_date, DateWidth),
     artist |-> release.artist.name,
     title |-> release.title]
PrintReleases ==
    /\ pc = "print_releases"
    /\ out' = out \o [x \in 1..Len(releases) |-> release_line(releases[x])]
    /\ pc' = "exit"
    /\ UNCHANGED <<args, file, opened, logged, exc, kvs, rewrite, fail, changed,
                   failure, it, matches, artist_name, page,
                   artist_ids, art_id, nx, all_releases, releases>>

Next ==
    \/ MainLoad
    \/ LookupIter
    \/ SearchRequest
    \/ SearchReturn
    \/ LookupMatch
    \/ MainPersist
    \/ MainCheck
    \/ GetReleasesIter
    \/ ArtistRequest
    \/ ArtistReturn
    \/ PrintReleases

Spec == Init /\ [][Next]_vars

(***************************************************************************)
(* Properties                                                              *)
(***************************************************************************)
HasLineIn(o, kind) == \E x \in 1..Len(o) : o[x].line = kind
HasLine(kind) == HasLineIn(out, kind)
\* some name has come back from search_artist with zero or several candidates
SomeNameFailed ==
    \/ HasLine("multiple")
    \/ pc = "lookup_match" /\ Len(matches) # 1
FetchPcs == {"get_releases", "get_releases_artist", "artist_parse",
             "print_releases"}
AfterLookupPcs == {"persist", "check", "exit"} \cup FetchPcs
Written == "w" \in RangeOf(opened)
ReleaseLinesOf(rs) == [x \in 1..Len(rs) |-> release_line(rs[x])]

\* C1: a run in which no name fails hands get_releases the identifiers of
\* the working set followed by those of --ids, then fetches and prints
\* their releases and ends normally.
C1_IdsReachGetReleases ==
    (pc = "exit" /\ ~SomeNameFailed) =>
        /\ exc = ""
        /\ artist_ids = dict_values(kvs) \o args.ids
        /\ \A x \in 1..Len(artist_ids) :
             [msg |-> "artist_id", arg |-> artist_ids[x]] \in logged
        /\ Len(out) >= Len(releases)
        /\ SubSeq(out, Len(out) - Len(releases) + 1, Len(out))
             = ReleaseLinesOf(releases)

\* C2: once a name has failed to resolve to exactly one candidate, the run
\* never fetches or prints releases, and it ends with the abort message.
C2_FailedRunNeverFetches ==
    SomeNameFailed =>
        /\ pc \notin FetchPcs
        /\ \A m \in logged : m.msg # "artist_id"
        /\ ~HasLine("release")
        /\ releases = <<>> /\ all_releases = <<>> /\ artist_ids = <<>>
        /\ pc = "exit" => (exc = "" /\ out[Len(out)].line = "abort")
C2_Witness ==
    /\ pc = "exit" /\ HasLine("multiple") /\ HasLine("match")
    /\ args.ids # <<>>

\* C3: every step that opens the cache file for writing or changes it is
\* taken with a cache path given and at least one entry newly resolved.
C3_WriteOnlyIfChangedAndPath ==
    [][ (file' # file \/ "w" \in {opened'[x] : x \in (Len(opened) + 1)..Len(opened')})
          => (Truthy(args.json) /\ rewrite /\ HasLine("match")) ]_vars
C3_Witness == Written /\ pc = "exit"

\* C4: with a cache path, a failed name and a newly resolved one, the file
\* has been written by the time the run checks for failure: it holds every
\* newly resolved identifier, and the failed names without one.
C4_FailedRunStillPersists ==
    (pc \in {"check", "exit"} /\ Truthy(args.json)
        /\ HasLine("multiple") /\ HasLine("match")) =>
        /\ Written /\ file.exists
        /\ json_load(file.members) = kvs
        /\ \A x \in 1..Len(out) :
             out[x].line = "lookup" =>
                LET v == dict_get(file.members, out[x].k)
                IN IF out[x + 1].line = "match"
                   THEN v = JStr(out[x + 2].id)
                   ELSE v \in {JNull, JStr("")}
C4_Witness ==
    /\ pc = "exit" /\ Written
    /\ out[2].line = "multiple" /\ HasLine("match")

\* C5: lookup's step on the candidates of an unresolved entry: exactly one
\* candidate stores its identifier and sets changed; any other number sets
\* failure and leaves the entry as it was; no other entry is touched; the
\* flags say which branches were taken, and are what lookup returns.
C5_LookupBranches ==
    [][ /\ pc = "lookup_match" =>
            /\ ~Truthy(kvs[it].v)
            /\ IF Len(matches) = 1
               THEN /\ kvs'[it] = Item(kvs[it].k, matches[1].id)
                    /\ changed'
                    /\ failure' = failure
               ELSE /\ kvs'[it] = kvs[it]
                    /\ failure'
                    /\ changed' = changed
            /\ Len(kvs') = Len(kvs)
            /\ \A x \in 1..Len(kvs) : x # it => kvs'[x] = kvs[x]
        /\ pc' \in {"lookup", "search_artist", "search_parse", "lookup_match"} =>
            /\ changed' <=> HasLineIn(out', "match")
            /\ failure' <=> HasLineIn(out', "multiple")
        /\ (pc = "lookup" /\ pc' = "persist") =>
            /\ rewrite' <=> HasLineIn(out, "match")
            /\ fail' <=> HasLineIn(out, "multiple")
      ]_vars
C5_Witness == pc = "persist" /\ rewrite /\ fail

\* a match without the display name search_artist adds to it
StripDispname(ms) ==
    [x \in 1..Len(ms) |->
        Candidate(ms[x].name, ms[x].score, ms[x].id, ms[x].disambiguation)]
\* C6: search_artist returns, in the catalog's order, exactly the artists
\* whose name is the query or whose score is 100.
C6_SearchFilter ==
    [][ pc = "search_parse" =>
          LET wanted(a) == a.name = artist_name \/ a.score = 100
              got == StripDispname(matches')
          IN /\ got = SelectSeq(page.content, wanted)
             /\ \A x \in 1..Len(page.content) :
                  /\ page.content[x].name = artist_name
                        => page.content[x] \in RangeOf(got)
                  /\ page.content[x].score = 100
                        => page.content[x] \in RangeOf(got)
                  /\ ~wanted(page.content[x])
                        => page.content[x] \notin RangeOf(got)
      ]_vars
C6_Witness ==
    /\ pc = "lookup_match" /\ Len(matches) = 2
    /\ matches[1].score # 100 /\ matches[1].name = kvs[it].k
    /\ matches[2].score = 100 /\ matches[2].name # kvs[it].k

\* C7: an entry that holds an identifier is never searched for and never
\* changes; the identifiers of the cache file win over --artists at load;
\* names are unique in the working set; a written file holds the same
\* identifiers.
C7_ResolvedEntriesStable ==
    [][ /\ (pc = "main" /\ Truthy(args.json) /\ file.exists) =>
            \A x \in 1..Len(file.members) :
                (file.members[x].v.tok = "string" /\ file.members[x].v.val # "")
                    => Item(file.members[x].k, file.members[x].v.val)
                          \in RangeOf(kvs')
        /\ pc # "main" =>
            /\ Len(kvs') = Len(kvs)
            /\ \A x \in 1..Len(kvs) : Truthy(kvs[x].v) => kvs'[x] = kvs[x]
        /\ pc' \in {"search_artist", "search_parse"} =>
            ~Truthy(dict_get(kvs', artist_name'))
        /\ \A x, y \in 1..Len(kvs') : kvs'[x].k = kvs'[y].k => x = y
        /\ file' # file =>
            \A x \in 1..Len(kvs) :
                Truthy(kvs[x].v)
                    => Item(kvs[x].k, JStr(kvs[x].v)) \in RangeOf(file'.members)
      ]_vars
C7_Witness ==
    /\ pc = "exit" /\ Written
    /\ \E x \in 1..Len(args.artists) :
         /\ Item(args.artists[x], JStr("id-123")) \in RangeOf(file.members)
         /\ Item(args.artists[x], "id-123") \in RangeOf(kvs)

\* a > b for strings given as code points
RECURSIVE LexGreater(_, _)
LexGreater(a, b) ==
    IF a = <<>> THEN FALSE
    ELSE IF b = <<>> THEN TRUE
    ELSE IF Head(a) # Head(b) THEN Head(a) > Head(b)
    ELSE LexGreater(Tail(a), Tail(b))
\* position of input element k in the stable descending order
StableRank(s, k) ==
    1 + Cardinality({m \in 1..Len(s) :
          \/ LexGreater(s[m].first_release_date, s[k].first_release_date)
          \/ /\ s[m].first_release_date = s[k].first_release_date
             /\ m < k})
\* C8: get_releases appends each artist's release groups in the order of
\* the identifiers, and returns them ordered by first-release-date
\* descending, character by character, equal dates keeping their order.
C8_StableDescendingSort ==
    [][ /\ pc = "artist_parse" =>
            /\ page.content.id = artist_ids[nx]
            /\ all_releases' = all_releases \o attach_artist(page.content)
            /\ nx' = nx + 1
        /\ (pc = "get_releases" /\ pc' = "print_releases") =>
            /\ nx = Len(artist_ids) + 1
            /\ Len(releases') = Len(all_releases)
            /\ \A k \in 1..Len(all_releases) :
                 releases'[StableRank(all_releases, k)] = all_releases[k]
      ]_vars
C8_Witness ==
    /\ pc = "print_releases" /\ Len(releases) = 4
    /\ releases # all_releases
    /\ \E x \in 1..3 :
         /\ releases[x].first_release_date = releases[x + 1].first_release_date
         /\ releases[x].title # releases[x + 1].title

RequestLoops == {"search_artist", "get_releases_artist"}
\* C9: in both request loops a response other than 200 raises nothing and
\* repeats the same request with nothing else changed; the loop is left
\* only by a step whose response is 200, and a 200 response always leaves it.
C9_RetryUntilSuccess ==
    [][ (pc \in RequestLoops) =>
        ( /\ exc' = ""
          /\ IF page'.status_code = OK
             THEN pc' = (IF pc = "search_artist" THEN "search_parse"
                                                  ELSE "artist_parse")
             ELSE /\ pc' = pc
                  /\ [msg |-> "status", arg |-> page'.status_code] \in logged'
                  /\ UNCHANGED <<args, file, opened, out, exc, kvs, rewrite,
                                 fail, changed, failure, it, matches,
                                 artist_name, artist_ids, art_id, nx,
                                 all_releases, releases>> )
      ]_vars
C9_Witness ==
    /\ pc = "artist_parse"
    /\ [msg |-> "status", arg |-> 503] \in logged
    /\ HasLine("match")

\* C10: when lookup reports no failure every entry of the working set
\* holds an identifier, and the fetcher is only called with identifiers.
C10_FetchOnlyResolved ==
    /\ (pc \in AfterLookupPcs /\ ~fail) =>
          \A x \in 1..Len(kvs) : Truthy(kvs[x].v)
    /\ pc \in FetchPcs =>
          \A x \in 1..Len(artist_ids) : Truthy(artist_ids[x])
    /\ pc \in {"get_releases_artist", "artist_parse"} => Truthy(art_id)
    /\ \A m \in logged : m.msg = "artist_id" => Truthy(m.arg)
C10_Witness ==
    /\ pc = "artist_parse" /\ nx = 2
    /\ HasLine("match")
    /\ \E x \in 1..Len(kvs) : kvs[x].v = "id-123"

====
